---- MODULE Spec2Model ----
(***************************************************************************)
(* Weekly usage accounting and limit enforcement of nutrition-helper:      *)
(* the week-key functions of the frontend and of the SQLite views, the     *)
(* usage views over the entry store, and the add-meal wizard of the daily  *)
(* view (template selection, option selection, Save).                      *)
(*                                                                         *)
(* A calendar date is a day number: day 0 is Sunday 2023-01-01.  Times of  *)
(* day and time zones are not modelled: every Date is taken at the same    *)
(* local time of day, in a zone without daylight-saving shifts.            *)
(***************************************************************************)
EXTENDS Integers, FiniteSets, Sequences, Bags, TLC

\* ------------------------------------------------------------------ bounds

\* First and last day of the daily view's navigation window
\* (1050 = Sun 2025-11-16, 1051 = Mon 2025-11-17 ... 1053 = Wed 2025-11-19).
FirstDay == 1050
LastDay == 1053

\* Rows the meal_entries table may hold at a time.
MaxEntries == 2

\* Dates the week-key functions are probed on: 1 = Mon 2023-01-02 ...
\* LastProbeDay = Sat 2026-01-10; the second date of a pair lies at most
\* ProbeSpan days after the first.
LastProbeDay == 1105
ProbeSpan == 8

\* ---------------------------------------------------------------- calendar

\* null of the TypeScript types / NULL of the schema, for integer fields.
NULL == -1

IsLeapYear(y) == (y % 4 = 0 /\ y % 100 # 0) \/ y % 400 = 0

YearLength(y) == IF IsLeapYear(y) THEN 366 ELSE 365

\* new Date(year, 0, 1): the day number of January 1st of `year`.
RECURSIVE Jan1(_)
Jan1(year) == IF year <= 2023 THEN 0 ELSE Jan1(year - 1) + YearLength(year - 1)

\* Date.prototype.getFullYear / strftime('%Y').
getFullYear(d) == CHOOSE y \in 2022..2027 :
                     IF y = 2022 THEN d < 0 ELSE Jan1(y) <= d /\ d < Jan1(y + 1)

\* Date.prototype.getDay / strftime('%w'): 0 = Sunday ... 6 = Saturday.
getDay(d) == d % 7

\* `${year}-${weekNumber.toString().padStart(2, '0')}` and
\* strftime('%Y-', ..) || printf('%02d', ..): the text "YYYY-WW".  A week
\* number is below 100, so two texts are equal iff year and week both are;
\* the text is represented by the number YYYYWW.
WeekString(year, weekNumber) == year * 100 + weekNumber

\* ------------------------------------------------------ instants and zones

\* An instant is a number of hours since 00:00 UTC of day 0; a time zone is
\* its offset from UTC in hours (local time = UTC + tz).

\* The local calendar day of an instant.
localDay(instant, tz) == (instant + tz) \div 24

\* date.toISOString().split("T")[0]: the UTC calendar day of an instant.
toISODate(instant) == instant \div 24

\* new Date("YYYY-MM-DD"): 00:00 UTC of the day.
parseISODate(date) == date * 24

\* d.setHours(0, 0, 0, 0): 00:00 local time of the instant's local day.
setHoursZero(instant, tz) == localDay(instant, tz) * 24 - tz

\* handleSave: today = new Date() and mealDate = new Date(date), both
\* setHours(0, 0, 0, 0); isPastDate = mealDate < today.
isPastDateAt(date, now, tz) ==
    setHoursZero(parseISODate(date), tz) < setHoursZero(now, tz)

\* ------------------------------------------------- frontend: getCurrentWeek

\* getCurrentWeek() with `now` made a parameter.
getCurrentWeek(now) ==
    LET shiftedDate == now - 1
        year == getFullYear(shiftedDate)
        jan1 == Jan1(year)
        dayOfYear == shiftedDate - jan1
        jan1Day == getDay(jan1)
        weekNumber == (dayOfYear + jan1Day) \div 7
    IN  WeekString(year, weekNumber)

\* ------------------------------------------------------ SQLite week columns

\* strftime('%W', d): week of year 00-53, week 01 starts on the first Monday:
\* (day of year + 7 - weekday counted from Monday) / 7.
strftimeW(d) ==
    LET nDay == d - Jan1(getFullYear(d))
        wd == (getDay(d) + 6) % 7
    IN  (nDay + 7 - wd) \div 7

\* The `week` column of weekly_meal_usage as the last migration defines it:
\* strftime('%Y-', date(date, '-1 day')) || printf('%02d', %W of that day).
MealUsageWeek(date) ==
    WeekString(getFullYear(date - 1), strftimeW(date - 1))

\* The `week` column of weekly_tag_usage as the last statement that creates
\* the view defines it: strftime('%Y-%W', me.date).
TagUsageWeek(date) ==
    WeekString(getFullYear(date), strftimeW(date))

\* ------------------------------------------------------------ store content

\* The five fixed slots are breakfast, morning_snack, lunch, afternoon_snack
\* and dinner; the model keeps two of them.
Slots == {"breakfast", "lunch"}

\* meal_templates rows (ids) and meal_options rows (id -> template_id):
\* template 1 has two options, template 2 one, template 3 none.
Templates == {1, 2, 3}

Options == {1, 2, 3}

template_id == (1 :> 1) @@ (2 :> 1) @@ (3 :> 2)

\* tags rows (id -> parent_tag_id): tag 1 is a root, tag 2 its child.
Tags == {1, 2}

parent_tag_id == (1 :> NULL) @@ (2 :> 1)

\* tags.weekly_suggestion of the rows above: the parent tag is to be avoided
\* (0), the child tag is suggested at most once a week.
weekly_suggestion == (1 :> 0) @@ (2 :> 1)

\* meal_option_tags rows <<meal_option_id, tag_id>>: option 1 carries only the
\* child tag, option 2 only the parent tag, option 3 no tag.
meal_option_tags == {<<1, 2>>, <<2, 1>>}

\* Largest weekly_limit a template of the model is given.
MaxLimit == 2

Days == FirstDay..LastDay

\* ------------------------------------------------------------------- state

VARIABLES
    today,              \* the calendar date of `new Date()`
    lookupMayFail,      \* whether a getWeeklyUsage call can throw (the
                        \* backend command returning an error)
    weekly_limit,       \* meal_templates.weekly_limit, by template id
    meal_entries,       \* the meal_entries table: a bag of rows (the id
                        \* column is left out: rows equal in every other
                        \* column are copies of one element of the bag)
    selectedDate,       \* DailyView: selectedDate
    entries,            \* DailyView: entries (slot -> option of the entry
                        \* shown, NULL if none)
    selectedSlot,       \* DailyView: selectedSlot ("" for null)
    selectedTemplate,   \* DailyView: selectedTemplate (NULL for null)
    templateModalOpen,  \* DailyView: templateModalOpen
    optionModalOpen,    \* DailyView: optionModalOpen
    msOptions,          \* MealSelectionModal: options (ids)
    msWeeklyUsage,      \* MealSelectionModal: weeklyUsage (option id -> count)
    osOptions,          \* OptionSelectionModal: options (ids)
    osWeeklyUsage,      \* OptionSelectionModal: weeklyUsage
    osWeek,             \* loadOptions: currentWeek, the week the usage was asked for
    osUsageFailed,      \* loadOptions: some getWeeklyUsage call was caught failing
    selectedOption,     \* OptionSelectionModal: selectedOption (NULL for null)
    verdict,            \* the result of the last validate_entry call (<<>>
                        \* when none is at hand)
    probe,              \* the pair of dates the week functions are applied to
    weeks,              \* the computed week values for `probe` (<<>> before)
    clock,              \* a time zone, the instant `now` and the instant the
                        \* daily view's selectedDate holds (<<>> when unused)
    saved,              \* the date and completed fields handleSave gives the
                        \* entry under `clock` (<<>> before)
    call,               \* an API wrapper and the value its invoke resolves to
                        \* (<<>> when unused)
    outcome,            \* what the wrapper's promise settles to (<<>> before)
    tags,               \* the tags table: tag id -> its weekly_suggestion and
                        \* parent_tag_id columns
    tagForm,            \* TagForm: its state while mounted (<<>> when
                        \* TagsView's showForm is false)
    loading,            \* DailyView: loading
    loads,              \* DailyView: the loadEntries calls that have not
                        \* settled yet, each the date it asks for
    stored_templates,   \* the ids of the rows of meal_templates
    stored_options,     \* the ids of the rows of meal_options
    stored_option_tags, \* the rows of meal_option_tags: <<option, tag>>
    optionForm,         \* OptionForm editing an option: the option,
                        \* existingTags and selectedTagIds (<<>> when
                        \* OptionsView's showForm is false)
    wizard,             \* MealWizardModal: the props isOpen, slotType and
                        \* date, and the state step and selectedTemplate
    recent              \* the 'Recently Used' part of one loadData call of
                        \* MealSelectionModal (<<>> when none has started)

envVars == <<today, lookupMayFail>>

storeVars == <<weekly_limit, meal_entries>>

viewVars == <<selectedDate, entries, selectedSlot, selectedTemplate,
              templateModalOpen, optionModalOpen>>

modalVars == <<msOptions, msWeeklyUsage, osOptions, osWeeklyUsage, osWeek,
               osUsageFailed, selectedOption>>

probeVars == <<probe, weeks, clock, saved, call, outcome>>

evalVars == verdict

tagVars == <<tags, tagForm>>

loadVars == <<loading, loads>>

catalogVars == <<stored_templates, stored_options, stored_option_tags>>

optionFormVars == <<optionForm>>

wizardVars == <<wizard>>

recentVars == <<recent>>

vars == <<envVars, wizardVars, recentVars, optionFormVars, catalogVars, loadVars, tagVars, storeVars, viewVars, modalVars, probeVars, evalVars>>

\* ------------------------------------------------------------ usage views

\* COUNT(*) over the rows of a table that pass a WHERE test (`rows`: the
\* distinct rows that pass).
CountRows(table, rows) ==
    BagCardinality([r \in rows \cap BagToSet(table) |-> table[r]])

\* The distinct rows of meal_entries with completed = 1.
CompletedEntries == {e \in BagToSet(meal_entries) : e.completed}

\* The view as it would be without its WHERE completed = 1.
weekly_meal_usage_all_entries ==
    LET groups == {<<e.meal_option_id, MealUsageWeek(e.date)>> :
                      e \in BagToSet(meal_entries)}
    IN  {[meal_option_id |-> g[1], week |-> g[2],
          usage_count |-> CountRows(meal_entries,
                              {e \in BagToSet(meal_entries) : /\ e.meal_option_id = g[1]
                                                              /\ MealUsageWeek(e.date) = g[2]})] :
            g \in groups}

\* VIEW weekly_meal_usage: SELECT meal_option_id, <week>, COUNT(*)
\* FROM meal_entries WHERE completed = 1 GROUP BY meal_option_id, week.
weekly_meal_usage ==
    LET groups == {<<e.meal_option_id, MealUsageWeek(e.date)>> : e \in CompletedEntries}
    IN  {[meal_option_id |-> g[1], week |-> g[2],
          usage_count |-> CountRows(meal_entries,
                              {e \in BagToSet(meal_entries) : /\ e.completed
                                                              /\ e.meal_option_id = g[1]
                                                              /\ MealUsageWeek(e.date) = g[2]})] :
            g \in groups}

\* VIEW weekly_tag_usage: tags JOIN meal_option_tags JOIN meal_options JOIN
\* meal_entries WHERE completed = 1 GROUP BY tag, week.
weekly_tag_usage ==
    LET joined == {<<t, e>> \in Tags \X CompletedEntries :
                      <<e.meal_option_id, t>> \in meal_option_tags}
        groups == {<<j[1], TagUsageWeek(j[2].date)>> : j \in joined}
    IN  {[tag_id |-> g[1], week |-> g[2],
          usage_count |-> CountRows(meal_entries,
                              {e \in BagToSet(meal_entries) : /\ e.completed
                                                              /\ <<e.meal_option_id, g[1]>> \in meal_option_tags
                                                              /\ TagUsageWeek(e.date) = g[2]})] :
            g \in groups}

\* Command get_weekly_usage: the row of weekly_meal_usage for the option and
\* the week, or none (the result is the set of rows found, at most one).
get_weekly_usage(mealOptionId, week) ==
    {r \in weekly_meal_usage : r.meal_option_id = mealOptionId /\ r.week = week}

\* Command get_weekly_tag_usage: the rows of weekly_tag_usage for the week.
get_weekly_tag_usage(week) ==
    {r \in weekly_tag_usage : r.week = week}

\* `usage?.usage_count || 0` on the result of getWeeklyUsage.
UsageCount(mealOptionId, week) ==
    LET usage == get_weekly_usage(mealOptionId, week)
    IN  IF usage = {} THEN 0 ELSE (CHOOSE r \in usage : TRUE).usage_count

\* The usage_count of the tag's row among the rows get_weekly_tag_usage
\* returns, 0 when the tag has no row.
TagUsageCount(tagId, week) ==
    LET rows == {r \in get_weekly_tag_usage(week) : r.tag_id = tagId}
    IN  IF rows = {} THEN 0 ELSE (CHOOSE r \in rows : TRUE).usage_count

\* ------------------------------------------------------------ entry store

\* create_entry: INSERT INTO meal_entries.
create_entry(entry) ==
    /\ BagCardinality(meal_entries) < MaxEntries
    /\ meal_entries' = meal_entries (+) SetToBag({entry})

\* update_entry(id, {completed}) on the row `row` stands for; the other
\* updatable fields (location, servings, notes) are not part of the model.
update_entry(row, completed) ==
    /\ BagIn(row, meal_entries)
    /\ meal_entries' = (meal_entries (-) SetToBag({row}))
                          (+) SetToBag({[row EXCEPT !.completed = completed]})

\* delete_entry(id) on the row `row` stands for.
delete_entry(row) ==
    /\ BagIn(row, meal_entries)
    /\ meal_entries' = meal_entries (-) SetToBag({row})

NoModalState ==
    /\ msOptions = {}
    /\ msWeeklyUsage = <<>>
    /\ osOptions = {}
    /\ osWeeklyUsage = <<>>
    /\ osWeek = NULL
    /\ osUsageFailed = FALSE
    /\ selectedOption = NULL

\* The tags table holds the rows of the fixture and no tag form is mounted.
NoTagForm ==
    /\ tags = [t \in Tags |-> [weekly_suggestion |-> weekly_suggestion[t],
                                parent_tag_id |-> parent_tag_id[t]]]
    /\ tagForm = <<>>

\* The templates, options and option tags are those of the fixture.
WholeCatalog ==
    /\ stored_templates = Templates
    /\ stored_options = Options
    /\ stored_option_tags = meal_option_tags

\* No option form is mounted.
NoOptionForm == optionForm = <<>>

\* The wizard is mounted closed: useState(1) and useState(null).
NoWizard ==
    wizard = [isOpen |-> FALSE, step |-> 1, selectedTemplate |-> NULL,
              slotType |-> "", date |-> NULL]

\* No loadData call of the template modal has started.
NoRecent == recent = <<>>

\* No loadEntries call is under way.
NoLoad ==
    /\ loading = FALSE
    /\ loads = {}

NoProbe ==
    /\ probe = <<>>
    /\ weeks = <<>>
    /\ clock = <<>>
    /\ saved = <<>>
    /\ call = <<>>
    /\ outcome = <<>>
    /\ verdict = <<>>

StoreInit ==
    /\ today = LastDay
    /\ lookupMayFail = FALSE
    /\ weekly_limit = [t \in Templates |-> NULL]
    /\ meal_entries = EmptyBag
    /\ selectedDate = today
    /\ entries = [s \in Slots |-> NULL]
    /\ selectedSlot = ""
    /\ selectedTemplate = NULL
    /\ templateModalOpen = FALSE
    /\ optionModalOpen = FALSE
    /\ NoModalState
    /\ NoTagForm
    /\ NoLoad
    /\ NoOptionForm
    /\ NoWizard
    /\ NoRecent
    /\ WholeCatalog
    /\ NoProbe

CreateEntry ==
    /\ \E o \in Options, d \in Days, s \in Slots, c \in BOOLEAN :
          create_entry([meal_option_id |-> o, date |-> d, slot_type |-> s,
                        completed |-> c])
    /\ UNCHANGED <<envVars, wizardVars, recentVars, optionFormVars, catalogVars, loadVars, tagVars, weekly_limit, viewVars, modalVars, probeVars>>
    /\ verdict' = <<>>

UpdateEntry ==
    /\ \E row \in BagToSet(meal_entries), c \in BOOLEAN : update_entry(row, c)
    /\ UNCHANGED <<envVars, wizardVars, recentVars, optionFormVars, catalogVars, loadVars, tagVars, weekly_limit, viewVars, modalVars, probeVars>>
    /\ verdict' = <<>>

DeleteEntry ==
    /\ \E row \in BagToSet(meal_entries) : delete_entry(row)
    /\ UNCHANGED <<envVars, wizardVars, recentVars, optionFormVars, catalogVars, loadVars, tagVars, weekly_limit, viewVars, modalVars, probeVars>>
    /\ verdict' = <<>>

\* ------------------------------------- deleting templates and options
\* The foreign keys of the schema: meal_options.template_id ON DELETE
\* CASCADE, meal_option_tags.meal_option_id ON DELETE CASCADE,
\* meal_entries.meal_option_id ON DELETE RESTRICT.

\* Some row of meal_entries references the option.
HasEntries(option) == \E e \in BagToSet(meal_entries) : e.meal_option_id = option

\* The stored options of the template.
OptionsOf(template) == {o \in stored_options : template_id[o] = template}

\* The deletion of a set of options with the rows of meal_option_tags that
\* reference them.
DropOptions(opts) ==
    /\ stored_options' = stored_options \ opts
    /\ stored_option_tags' = {row \in stored_option_tags : row[1] \notin opts}

\* delete_template without the RESTRICT of meal_entries.
delete_template_unrestricted(id) ==
    /\ stored_templates' = stored_templates \ {id}
    /\ DropOptions(OptionsOf(id))

\* delete_template(id): DELETE FROM meal_templates WHERE id; the statement
\* fails as a whole when an option it cascades to is referenced by an entry.
delete_template(id) ==
    IF \E o \in OptionsOf(id) : HasEntries(o)
    THEN UNCHANGED catalogVars
    ELSE /\ stored_templates' = stored_templates \ {id}
         /\ DropOptions(OptionsOf(id))

\* delete_option(id): DELETE FROM meal_options WHERE id.
delete_option(id) ==
    IF HasEntries(id)
    THEN UNCHANGED catalogVars
    ELSE /\ DropOptions({id})
         /\ UNCHANGED stored_templates

\* TemplatesView confirmDelete on templateToDelete.
confirmDeleteTemplate ==
    /\ \E templateToDelete \in stored_templates : delete_template(templateToDelete)
    /\ UNCHANGED <<envVars, wizardVars, recentVars, optionFormVars, loadVars, tagVars, storeVars, viewVars, modalVars,
                   probeVars, evalVars>>

\* OptionsView confirmDelete on optionToDelete.
confirmDeleteOption ==
    /\ \E optionToDelete \in stored_options : delete_option(optionToDelete)
    /\ UNCHANGED <<envVars, wizardVars, recentVars, optionFormVars, loadVars, tagVars, storeVars, viewVars, modalVars,
                   probeVars, evalVars>>

\* create_entry under the foreign key of meal_entries.meal_option_id: the
\* option of the new row is a stored one.
CreateEntryOfStoredOption ==
    /\ CreateEntry
    /\ \A e \in BagToSet(meal_entries') : e.meal_option_id \in stored_options

DeleteNext ==
    \/ CreateEntryOfStoredOption
    \/ DeleteEntry
    \/ confirmDeleteTemplate
    \/ confirmDeleteOption

DeleteSpec == StoreInit /\ [][DeleteNext]_vars

\* ------------------------------------------- OptionsView and OptionForm

\* The tags the store links to the option.
StoredTagsOf(option) == {row[2] : row \in {r \in stored_option_tags : r[1] = option}}

\* selectedTagIds.filter((id) => !existingTags.includes(id)).
tagsToAdd(selectedTagIds, existingTags) == selectedTagIds \ existingTags

\* tagsToRemove taking the tags that are still selected.
tagsToRemoveSelected(selectedTagIds, existingTags) == existingTags \cap selectedTagIds

\* existingTags.filter((id) => !selectedTagIds.includes(id)).
tagsToRemove(selectedTagIds, existingTags) == existingTags \ selectedTagIds

\* add_tags_to_option: a row of meal_option_tags for every tag given.
add_tags_to_option(rows, option, tagIds) == rows \cup {<<option, t>> : t \in tagIds}

\* remove_tags_from_option: the rows of the option with a tag given go.
remove_tags_from_option(rows, option, tagIds) ==
    {row \in rows : ~(row[1] = option /\ row[2] \in tagIds)}

\* The edit button of an option: setEditingOption(option),
\* setEditingOptionTags(option.tags), setShowForm(true); OptionForm starts
\* with selectedTagIds = existingTags.
handleEditOption ==
    /\ optionForm = <<>>
    /\ \E option \in stored_options :
          optionForm' = [option |-> option,
                         existingTags |-> StoredTagsOf(option),
                         selectedTagIds |-> StoredTagsOf(option)]
    /\ UNCHANGED <<envVars, wizardVars, recentVars, catalogVars, loadVars, tagVars, storeVars, viewVars,
                   modalVars, probeVars, evalVars>>

\* toggleTag(tagId).
toggleTag ==
    /\ optionForm # <<>>
    /\ \E tagId \in Tags :
          optionForm' = [optionForm EXCEPT !.selectedTagIds =
                            IF tagId \in @ THEN @ \ {tagId} ELSE @ \cup {tagId}]
    /\ UNCHANGED <<envVars, wizardVars, recentVars, catalogVars, loadVars, tagVars, storeVars, viewVars,
                   modalVars, probeVars, evalVars>>

\* OptionForm handleSubmit on an edit, every call succeeding: addTagsToOption
\* with tagsToAdd, removeTagsFromOption with tagsToRemove (each only when
\* not empty), then onSave unmounts the form.
handleSubmitOption ==
    /\ optionForm # <<>>
    /\ LET option == optionForm.option
           toAdd == tagsToAdd(optionForm.selectedTagIds, optionForm.existingTags)
           toRemove == tagsToRemove(optionForm.selectedTagIds, optionForm.existingTags)
           added == IF toAdd # {}
                    THEN add_tags_to_option(stored_option_tags, option, toAdd)
                    ELSE stored_option_tags
       IN  stored_option_tags' =
               IF toRemove # {}
               THEN remove_tags_from_option(added, option, toRemove)
               ELSE added
    /\ optionForm' = <<>>
    /\ UNCHANGED <<envVars, wizardVars, recentVars, stored_templates, stored_options, loadVars, tagVars,
                   storeVars, viewVars, modalVars, probeVars, evalVars>>

\* OptionForm onClose.
handleCloseOption ==
    /\ optionForm # <<>>
    /\ optionForm' = <<>>
    /\ UNCHANGED <<envVars, wizardVars, recentVars, catalogVars, loadVars, tagVars, storeVars, viewVars,
                   modalVars, probeVars, evalVars>>

OptionFormNext ==
    \/ handleEditOption
    \/ toggleTag
    \/ handleSubmitOption
    \/ handleCloseOption

OptionFormSpec == StoreInit /\ [][OptionFormNext]_vars

\* ------------------------------------------------------------- daily view

\* get_entries_by_date: the rows of the date.
get_entries_by_date(table, date) == {e \in BagToSet(table) : e.date = date}

\* loadEntries: entriesMap.set(entry.slot_type, ...) for every row of the
\* date in turn, so one row of a slot stays (here the one of the largest
\* option id; the wizard only reads whether the slot has a row).
loadEntries(table, date) ==
    [s \in Slots |->
        LET rows == {e \in get_entries_by_date(table, date) : e.slot_type = s}
        IN  IF rows = {} THEN NULL
            ELSE (CHOOSE e \in rows :
                     \A f \in rows : f.meal_option_id <= e.meal_option_id).meal_option_id]

NoModalOpen == ~templateModalOpen /\ ~optionModalOpen

\* setSelectedDate and the effect on [selectedDate] that reloads the entries.
SetSelectedDate(newDate) ==
    /\ NoModalOpen
    /\ newDate \in Days
    /\ selectedDate' = newDate
    /\ entries' = loadEntries(meal_entries, newDate)
    /\ UNCHANGED <<envVars, wizardVars, recentVars, optionFormVars, catalogVars, loadVars, tagVars, storeVars, selectedSlot, selectedTemplate,
                   templateModalOpen, optionModalOpen, modalVars, probeVars, evalVars>>

goToPreviousDay == SetSelectedDate(selectedDate - 1)

goToNextDay == SetSelectedDate(selectedDate + 1)

goToToday == selectedDate # today /\ SetSelectedDate(today)

\* --------------------------------------- daily view, loads settling late
\* In Spec every loadEntries call settles before the next click. Here a call
\* stays under way for any time: the date buttons are not disabled while
\* loading, and nothing cancels or orders the calls.

MaxLoads == 2

\* setSelectedDate(newDate), and the effect on [selectedDate] calling
\* loadEntries up to its first await: setLoading(true), dateStr taken from
\* selectedDate.
StartSelectedDate(newDate) ==
    /\ NoModalOpen
    /\ newDate \in Days
    /\ Cardinality(loads \cup {newDate}) <= MaxLoads
    /\ selectedDate' = newDate
    /\ loading' = TRUE
    /\ loads' = loads \cup {newDate}
    /\ UNCHANGED <<envVars, wizardVars, recentVars, optionFormVars, catalogVars, tagVars, storeVars, entries, selectedSlot,
                   selectedTemplate, templateModalOpen, optionModalOpen,
                   modalVars, probeVars, evalVars>>

previousDayClicked == StartSelectedDate(selectedDate - 1)

nextDayClicked == StartSelectedDate(selectedDate + 1)

todayClicked == selectedDate # today /\ StartSelectedDate(today)

\* A loadEntries call settles: setEntries(entriesMap) with the rows of its
\* dateStr, then setLoading(false) in its finally.
loadEntriesSettles ==
    /\ \E dateStr \in loads :
          /\ entries' = loadEntries(meal_entries, dateStr)
          /\ loads' = loads \ {dateStr}
    /\ loading' = FALSE
    /\ UNCHANGED <<envVars, wizardVars, recentVars, optionFormVars, catalogVars, tagVars, storeVars, selectedDate, selectedSlot,
                   selectedTemplate, templateModalOpen, optionModalOpen,
                   modalVars, probeVars, evalVars>>

\* ------------------------------------------------------ sums of usage maps

RECURSIVE SumUsage(_, _)
SumUsage(weeklyUsage, opts) ==
    IF opts = {} THEN 0
    ELSE LET opt == CHOOSE o \in opts : TRUE
         IN  weeklyUsage[opt] + SumUsage(weeklyUsage, opts \ {opt})

\* The usage map a modal builds: usage?.usage_count || 0 for every option,
\* and 0 for an option whose getWeeklyUsage call throws.
LoadUsage(opts, currentWeek, failed) ==
    [o \in opts |-> IF o \in failed THEN 0 ELSE UsageCount(o, currentWeek)]

\* The sets of options whose getWeeklyUsage call may be caught throwing.
FailedLookups(opts) == IF lookupMayFail THEN SUBSET opts ELSE {{}}

\* The test as it would be with > in place of >=.
LimitReachedStrict(limit, usage) == limit # NULL /\ limit # 0 /\ usage > limit

\* `template.weekly_limit && usage >= template.weekly_limit`, made a boolean.

LimitReached(limit, usage) == limit # NULL /\ limit # 0 /\ usage >= limit

\* ------------------------------------------- evaluation of a candidate entry

\* week_key(date): the Monday of the week the date lies in.
week_key(date) == date - ((getDay(date) + 6) % 7)

\* The tag and the tags its parent_tag_id links lead to, up to the root.
RECURSIVE AncestorsOrSelf(_)
AncestorsOrSelf(tag) ==
    IF parent_tag_id[tag] = NULL THEN {tag}
    ELSE {tag} \cup AncestorsOrSelf(parent_tag_id[tag])

\* count_for_option: completed entries of the option in the week.
count_for_option(option, week) ==
    CountRows(meal_entries,
              {e \in BagToSet(meal_entries) :
                  e.completed /\ e.meal_option_id = option /\ week_key(e.date) = week})

\* count_for_template: the sum of count_for_option over the template's options.
count_for_template(template, week) ==
    LET opts == {o \in Options : template_id[o] = template}
    IN  SumUsage([o \in opts |-> count_for_option(o, week)], opts)

\* count_for_tag: completed entries of the week on an option that carries the
\* tag or a tag whose ancestors include it.
count_for_tag(tag, week) ==
    CountRows(meal_entries,
              {e \in BagToSet(meal_entries) :
                  /\ e.completed
                  /\ week_key(e.date) = week
                  /\ \E x \in Tags : /\ <<e.meal_option_id, x>> \in meal_option_tags
                                    /\ tag \in AncestorsOrSelf(x)})

\* The test as it would be if a suggestion of 0 were taken for no suggestion.
SuggestionReachedTruthy(suggestion, count) ==
    suggestion # NULL /\ suggestion # 0 /\ count >= suggestion

\* A suggestion is set and the existing count is at or above it.
SuggestionReached(suggestion, count) ==
    suggestion # NULL /\ count >= suggestion

\* validate_entry(entry): the verdict on a candidate entry, blocked by the
\* template's weekly_limit and warned for every tag of the option, and every
\* ancestor of one, that is at or above its weekly_suggestion (the warnings
\* are kept as the set of the tags they name).
validate_entry(entry) ==
    LET week == week_key(entry.date)
        template == template_id[entry.meal_option_id]
        own == {x \in Tags : <<entry.meal_option_id, x>> \in meal_option_tags}
        walked == UNION {AncestorsOrSelf(x) : x \in own}
    IN  [entry |-> entry,
         blocked |-> LimitReached(weekly_limit[template],
                                  count_for_template(template, week)),
         warnings |-> {t \in walked :
                          SuggestionReached(weekly_suggestion[t],
                                            count_for_tag(t, week))}]

\* validateEntry(entry) called on the store as it is.
ValidateEntry ==
    /\ \E o \in Options, d \in Days :
          verdict' = validate_entry([meal_option_id |-> o, date |-> d])
    /\ UNCHANGED <<envVars, wizardVars, recentVars, optionFormVars, catalogVars, loadVars, tagVars, storeVars, viewVars, modalVars, probeVars>>

StoreNext == CreateEntry \/ UpdateEntry \/ DeleteEntry \/ ValidateEntry

StoreSpec == StoreInit /\ [][StoreNext]_vars

\* ------------------------------------------------------------ TemplateForm

\* The CHECK as it would be if it admitted 0.
CheckWeeklyLimitNonNegative(v) == v = NULL \/ v >= 0

\* CHECK(weekly_limit IS NULL OR weekly_limit > 0) of meal_templates.
CheckWeeklyLimit(v) == v = NULL \/ v > 0

\* <input type="number" min="0" step="1">: the form is not submitted while
\* the field holds a number below 0.
NumberInputValid(v) == v = NULL \/ v >= 0

\* What the number field of a form can hold: empty (null) or parseInt of the
\* text typed (-2 for the negative numbers, NULL being -1).
NumberInputs == {NULL, -2} \cup (0..MaxLimit)

\* update_template as it would be if it reset the completed flag of the
\* entries on the template's options.
update_template_touching_entries(id, limit) ==
    IF CheckWeeklyLimit(limit)
    THEN /\ weekly_limit' = [weekly_limit EXCEPT ![id] = limit]
         /\ meal_entries' =
                LET touched(e) == IF template_id[e.meal_option_id] = id
                                  THEN [e EXCEPT !.completed = FALSE] ELSE e
                    rows == {touched(e) : e \in BagToSet(meal_entries)}
                IN  [r \in rows |->
                        CountRows(meal_entries,
                                  {e \in BagToSet(meal_entries) : touched(e) = r})]
    ELSE UNCHANGED storeVars

\* update_template(id, {weekly_limit}): UPDATE meal_templates SET
\* weekly_limit = ? WHERE id = ?, refused as a whole when the CHECK fails.
update_template(id, limit) ==
    IF CheckWeeklyLimit(limit)
    THEN /\ weekly_limit' = [weekly_limit EXCEPT ![id] = limit]
         /\ UNCHANGED meal_entries
    ELSE UNCHANGED storeVars

\* TemplateForm.handleSubmit on an existing template: updateTemplate with the
\* weekly limit the form holds (the other fields are not part of the model);
\* a backend error is caught and shown.
SubmitTemplateForm ==
    /\ NoModalOpen
    /\ \E id \in {t \in Templates : \E o \in Options : template_id[o] = t},
          weeklyLimit \in NumberInputs :
          /\ NumberInputValid(weeklyLimit)
          /\ update_template(id, weeklyLimit)
    /\ UNCHANGED <<envVars, wizardVars, recentVars, optionFormVars, catalogVars, loadVars, tagVars, viewVars, modalVars, probeVars, evalVars>>

TemplateNext == CreateEntry \/ UpdateEntry \/ DeleteEntry \/ SubmitTemplateForm

TemplateSpec == StoreInit /\ [][TemplateNext]_vars

\* ---------------------------------------------------- TagsView and TagForm

MaxTags == 3

\* TagsView: rootTags, the tags without a parent.
rootTags == {t \in DOMAIN tags : tags[t].parent_tag_id = NULL}

\* TagsView renders an edit button for every root tag and for every tag of
\* childTagsMap.get(root.id), the tags whose parent is a root.
EditableTags == rootTags \cup {t \in DOMAIN tags : tags[t].parent_tag_id \in rootTags}

\* `value || null` on a number, null or undefined: 0 is falsy.
OrNull(value) == IF value = NULL \/ value = 0 THEN NULL ELSE value

\* loadTags without its filter.
loadTagsUnfiltered(tag) == DOMAIN tags

\* loadTags: getAllTags(), and when editing without the tag itself and the
\* tags whose parent it is (the ids; the rows are those of `tags`, which
\* does not change while the form is mounted).
loadTags(tag) ==
    IF tag = NULL THEN DOMAIN tags
    ELSE {t \in DOMAIN tags : t # tag /\ tags[t].parent_tag_id # tag}

\* The form state TagForm starts with for `tag` (NULL when creating).
TagFormState(tag) ==
    [tag |-> tag,
     weeklySuggestion |-> IF tag = NULL THEN NULL
                          ELSE OrNull(tags[tag].weekly_suggestion),
     parentTagId |-> IF tag = NULL THEN NULL
                     ELSE OrNull(tags[tag].parent_tag_id),
     availableTags |-> loadTags(tag)]

\* The options of the parent select: "None" and the available root tags.
ParentChoices == {NULL} \cup {t \in tagForm.availableTags : tags[t].parent_tag_id = NULL}

\* The CHECK constraint of tags.weekly_suggestion.
CheckWeeklySuggestion(v) == v = NULL \/ v >= 0

\* The id a new row of tags gets: one above the largest id of the table.
NextTagId ==
    IF DOMAIN tags = {} THEN 1
    ELSE 1 + CHOOSE t \in DOMAIN tags : \A u \in DOMAIN tags : u <= t

\* create_tag: a new row with the next id.
create_tag(data) ==
    IF CheckWeeklySuggestion(data.weekly_suggestion)
    THEN tags' = tags @@ (NextTagId :> data)
    ELSE UNCHANGED tags

\* delete_tag(id): DELETE FROM tags WHERE id under the foreign keys of the
\* schema: tags.parent_tag_id ON DELETE SET NULL, meal_option_tags.tag_id
\* ON DELETE CASCADE.
delete_tag(id) ==
    /\ tags' = [t \in DOMAIN tags \ {id} |->
                   IF tags[t].parent_tag_id = id
                   THEN [tags[t] EXCEPT !.parent_tag_id = NULL]
                   ELSE tags[t]]
    /\ stored_option_tags' = {row \in stored_option_tags : row[2] # id}

\* update_tag(id, data): null clears a column, a value sets it.
update_tag(id, data) ==
    IF CheckWeeklySuggestion(data.weekly_suggestion)
    THEN tags' = [tags EXCEPT ![id] = data]
    ELSE UNCHANGED tags

\* "Create Tag": setEditingTag(null); setShowForm(true).
handleCreateTag ==
    /\ tagForm = <<>>
    /\ NextTagId <= MaxTags
    /\ tagForm' = TagFormState(NULL)
    /\ UNCHANGED <<envVars, wizardVars, recentVars, optionFormVars, catalogVars, loadVars, tags, storeVars, viewVars, modalVars, probeVars, evalVars>>

\* The edit button of a tag: setEditingTag(tag); setShowForm(true).
handleEditTag ==
    /\ tagForm = <<>>
    /\ \E tag \in EditableTags : tagForm' = TagFormState(tag)
    /\ UNCHANGED <<envVars, wizardVars, recentVars, optionFormVars, catalogVars, loadVars, tags, storeVars, viewVars, modalVars, probeVars, evalVars>>

\* What the weekly suggestion input can hold: nothing, or a number typed
\* into it.
SuggestionInputs == {NULL, -2, 0, 1}

\* The weekly suggestion input (and "Remove limit", which sets null).
setWeeklySuggestion ==
    /\ tagForm # <<>>
    /\ \E v \in SuggestionInputs :
          /\ v # tagForm.weeklySuggestion
          /\ tagForm' = [tagForm EXCEPT !.weeklySuggestion = v]
    /\ UNCHANGED <<envVars, wizardVars, recentVars, optionFormVars, catalogVars, loadVars, tags, storeVars, viewVars, modalVars, probeVars, evalVars>>

\* The parent select.
setParentTagId ==
    /\ tagForm # <<>>
    /\ \E p \in ParentChoices :
          /\ p # tagForm.parentTagId
          /\ tagForm' = [tagForm EXCEPT !.parentTagId = p]
    /\ UNCHANGED <<envVars, wizardVars, recentVars, optionFormVars, catalogVars, loadVars, tags, storeVars, viewVars, modalVars, probeVars, evalVars>>

\* TagForm handleSubmit, run by the form's submit event (which the number
\* input's min keeps from firing): updateTag or createTag with the form's
\* values, then onSave unmounts the form; a rejected call leaves it mounted.
handleSubmitTag ==
    /\ tagForm # <<>>
    /\ NumberInputValid(tagForm.weeklySuggestion)
    /\ LET tagData == [weekly_suggestion |-> tagForm.weeklySuggestion,
                       parent_tag_id |-> tagForm.parentTagId]
       IN  /\ IF tagForm.tag # NULL
              THEN update_tag(tagForm.tag, tagData)
              ELSE create_tag(tagData)
           /\ tagForm' = IF CheckWeeklySuggestion(tagData.weekly_suggestion)
                         THEN <<>> ELSE tagForm
    /\ UNCHANGED <<envVars, wizardVars, recentVars, optionFormVars, catalogVars, loadVars, storeVars, viewVars, modalVars, probeVars, evalVars>>

\* TagForm onCancel: setShowForm(false); setEditingTag(null).
handleCancelTag ==
    /\ tagForm # <<>>
    /\ tagForm' = <<>>
    /\ UNCHANGED <<envVars, wizardVars, recentVars, optionFormVars, catalogVars, loadVars, tags, storeVars, viewVars, modalVars, probeVars, evalVars>>

\* The template form, which like the tag form is an overlay over the whole
\* window, is submitted while no tag form is mounted.
submitTemplateFormAlone ==
    /\ tagForm = <<>>
    /\ SubmitTemplateForm

FormNext ==
    \/ handleCreateTag
    \/ handleEditTag
    \/ setWeeklySuggestion
    \/ setParentTagId
    \/ handleSubmitTag
    \/ handleCancelTag
    \/ submitTemplateFormAlone

FormSpec == StoreInit /\ [][FormNext]_vars

\* TagsView confirmDelete on tagToDelete, a tag of the list.
confirmDeleteTag ==
    /\ tagForm = <<>>
    /\ \E tagToDelete \in EditableTags : delete_tag(tagToDelete)
    /\ UNCHANGED <<envVars, wizardVars, recentVars, optionFormVars, loadVars, tagForm, stored_templates, stored_options,
                   storeVars, viewVars, modalVars, probeVars, evalVars>>

TagsNext ==
    \/ handleCreateTag
    \/ handleEditTag
    \/ setWeeklySuggestion
    \/ setParentTagId
    \/ handleSubmitTag
    \/ handleCancelTag
    \/ confirmDeleteTag

TagsSpec == StoreInit /\ [][TagsNext]_vars

\* ------------------------------------------------------ MealSelectionModal

\* The sum as it would be without the filter on template_id.
msGetTemplateUsageAllOptions(template) ==
    SumUsage(msWeeklyUsage, msOptions)

\* MealSelectionModal.getTemplateUsage(template).
msGetTemplateUsage(template) ==
    SumUsage(msWeeklyUsage, {opt \in msOptions : template_id[opt] = template})

\* isExhausted of a template card.
msIsExhausted(template) ==
    LimitReached(weekly_limit[template], msGetTemplateUsage(template))

\* 'Add Meal' on an empty slot: opens the template modal, whose effect on
\* [isOpen] runs loadData.
onAddMeal ==
    /\ NoModalOpen
    /\ \E slot \in Slots :
          /\ entries[slot] = NULL
          /\ selectedSlot' = slot
    /\ templateModalOpen' = TRUE
    /\ msOptions' = Options
    /\ \E failed \in FailedLookups(Options) :
          msWeeklyUsage' = LoadUsage(Options, getCurrentWeek(today), failed)
    /\ UNCHANGED <<envVars, wizardVars, recentVars, optionFormVars, catalogVars, loadVars, tagVars, storeVars, selectedDate, entries, selectedTemplate,
                   optionModalOpen, osOptions, osWeeklyUsage, osWeek,
                   osUsageFailed, selectedOption, probeVars, evalVars>>

\* onClose of the template modal.
closeTemplateModal ==
    /\ templateModalOpen
    /\ templateModalOpen' = FALSE
    /\ selectedSlot' = ""
    /\ msOptions' = {}
    /\ msWeeklyUsage' = <<>>
    /\ UNCHANGED <<envVars, wizardVars, recentVars, optionFormVars, catalogVars, loadVars, tagVars, storeVars, selectedDate, entries, selectedTemplate,
                   optionModalOpen, osOptions, osWeeklyUsage, osWeek,
                   osUsageFailed, selectedOption, probeVars, evalVars>>

\* ---------------------------------------------------- OptionSelectionModal

\* get_options_by_template_with_tags.
get_options_by_template(templateId) ==
    {o \in Options : template_id[o] = templateId}

\* A template card: disabled={isExhausted}, and
\* onClick={() => !isExhausted && handleSelectTemplate(template)}, which
\* hands the template to DailyView (setSelectedTemplate).
clickTemplateCard(template) ==
    /\ templateModalOpen
    /\ ~msIsExhausted(template)
    /\ selectedTemplate' = template

\* A click on a template card that is not disabled: onSelectTemplate closes
\* the template modal and opens the option modal, whose effect on
\* [isOpen, template] runs loadOptions and resets the form.  The template
\* modal stays hidden from here until DailyView unmounts it, so its state is
\* not kept.
handleSelectTemplate(template) ==
    /\ clickTemplateCard(template)
    /\ LET templateOptions == get_options_by_template(template)
           currentWeek == getCurrentWeek(today)
       IN  /\ osOptions' = templateOptions
           /\ osWeek' = currentWeek
           /\ \E failed \in FailedLookups(templateOptions) :
                 /\ osWeeklyUsage' = LoadUsage(templateOptions, currentWeek, failed)
                 /\ osUsageFailed' = (failed # {})
    /\ templateModalOpen' = FALSE
    /\ optionModalOpen' = TRUE
    /\ selectedOption' = NULL
    /\ msOptions' = {}
    /\ msWeeklyUsage' = <<>>
    /\ UNCHANGED <<envVars, wizardVars, recentVars, optionFormVars, catalogVars, loadVars, tagVars, storeVars, selectedDate, entries, selectedSlot, probeVars, evalVars>>

\* OptionSelectionModal.getTemplateUsage().
getTemplateUsage ==
    IF osOptions = {} THEN 0 ELSE SumUsage(osWeeklyUsage, osOptions)

\* isExhausted as it would be if a tag of the template's options at or above
\* its weekly_suggestion disabled the buttons too.
isExhaustedOrOverSuggestion ==
    \/ LimitReached(weekly_limit[selectedTemplate], getTemplateUsage)
    \/ \E o \in osOptions : \E t \in Tags :
          /\ <<o, t>> \in meal_option_tags
          /\ TagUsageCount(t, TagUsageWeek(selectedDate)) >= weekly_suggestion[t]

\* isExhausted of every option button of the modal.
isExhausted ==
    LimitReached(weekly_limit[selectedTemplate], getTemplateUsage)

\* A click on an option button that is not disabled.
setSelectedOption(option) ==
    /\ optionModalOpen
    /\ option \in osOptions
    /\ ~isExhausted
    /\ selectedOption' = option
    /\ UNCHANGED <<envVars, wizardVars, recentVars, optionFormVars, catalogVars, loadVars, tagVars, storeVars, viewVars, msOptions, msWeeklyUsage,
                   osOptions, osWeeklyUsage, osWeek, osUsageFailed, probeVars, evalVars>>

\* `mealDate < today` of handleSave, at noon in the UTC zone.
isPastDate(date) == isPastDateAt(date, today * 24 + 12, 0)

ResetModals ==
    /\ msOptions' = {}
    /\ msWeeklyUsage' = <<>>
    /\ osOptions' = {}
    /\ osWeeklyUsage' = <<>>
    /\ osWeek' = NULL
    /\ osUsageFailed' = FALSE
    /\ selectedOption' = NULL

\* Save: createEntry, then onSuccess (loadEntries) and onClose.
handleSave ==
    /\ optionModalOpen
    /\ selectedOption # NULL
    /\ create_entry([meal_option_id |-> selectedOption, date |-> selectedDate,
                     slot_type |-> selectedSlot,
                     completed |-> isPastDate(selectedDate)])
    /\ entries' = loadEntries(meal_entries', selectedDate)
    /\ optionModalOpen' = FALSE
    /\ selectedTemplate' = NULL
    /\ selectedSlot' = ""
    /\ ResetModals
    /\ UNCHANGED <<envVars, wizardVars, recentVars, optionFormVars, catalogVars, loadVars, tagVars, weekly_limit, selectedDate, templateModalOpen, probeVars, evalVars>>

\* onClose of the option modal (Cancel or the close button).
closeOptionModal ==
    /\ optionModalOpen
    /\ optionModalOpen' = FALSE
    /\ selectedTemplate' = NULL
    /\ selectedSlot' = ""
    /\ ResetModals
    /\ UNCHANGED <<envVars, wizardVars, recentVars, optionFormVars, catalogVars, loadVars, tagVars, storeVars, selectedDate, entries, templateModalOpen,
                   probeVars, evalVars>>

\* --------------------------------- MealSelectionModal, 'Recently Used'

\* meal_templates.compatible_slots of the rows above.
compatible_slots ==
    (1 :> {"breakfast", "lunch"}) @@ (2 :> {"lunch"}) @@ (3 :> {"breakfast"})

\* Longest list of recent entries get_recent_entries is taken to return.
MaxRecent == 3

\* The lists getRecentEntries can resolve to, each entry by its
\* meal_option_id.
RecentLists == UNION {[1..n -> Options] : n \in 0..MaxRecent}

\* The check as it would be if no template id were ever found in the set.
neverClaimed(ids, templateId) == FALSE

\* recentTemplateIds.has(option.template_id).
alreadyClaimed(ids, templateId) == templateId \in ids

\* loadData up to recentEntries.map(...): every callback runs to its first
\* await, getOptionById.
loadData ==
    /\ IF recent = <<>> THEN TRUE ELSE recent.loaded
    /\ \E slot \in Slots, recentEntries \in RecentLists :
          recent' = [slotType |-> slot,
                     entries |-> recentEntries,
                     pos |-> [i \in DOMAIN recentEntries |-> "getOptionById"],
                     results |-> [i \in DOMAIN recentEntries |-> NULL],
                     recentTemplateIds |-> {},
                     list |-> <<>>,
                     loaded |-> FALSE]
    /\ UNCHANGED <<envVars, wizardVars, optionFormVars, catalogVars, loadVars, tagVars, storeVars, viewVars, modalVars, probeVars, evalVars>>

\* getOptionById of one callback settles: on a rejection the catch returns
\* null; otherwise the callback tests and extends recentTemplateIds and
\* either goes on to getTemplateById or returns null.
getOptionByIdSettles ==
    /\ recent # <<>>
    /\ \E i \in DOMAIN recent.entries, rejected \in BOOLEAN :
          /\ recent.pos[i] = "getOptionById"
          /\ LET templateId == template_id[recent.entries[i]]
             IN  IF ~rejected
                    /\ ~alreadyClaimed(recent.recentTemplateIds, templateId)
                 THEN recent' =
                        [recent EXCEPT !.pos[i] = "getTemplateById",
                                       !.recentTemplateIds = @ \cup {templateId}]
                 ELSE recent' = [recent EXCEPT !.pos[i] = "returned"]
    /\ UNCHANGED <<envVars, wizardVars, optionFormVars, catalogVars, loadVars, tagVars, storeVars, viewVars, modalVars, probeVars, evalVars>>

\* getTemplateById of one callback settles: the callback returns the
\* template, or null from the catch.
getTemplateByIdSettles ==
    /\ recent # <<>>
    /\ \E i \in DOMAIN recent.entries, rejected \in BOOLEAN :
          /\ recent.pos[i] = "getTemplateById"
          /\ recent' =
               [recent EXCEPT !.pos[i] = "returned",
                              !.results[i] =
                                 IF rejected THEN NULL
                                 ELSE template_id[recent.entries[i]]]
    /\ UNCHANGED <<envVars, wizardVars, optionFormVars, catalogVars, loadVars, tagVars, storeVars, viewVars, modalVars, probeVars, evalVars>>

\* Promise.all(recentTemplatesPromises) resolves: the non-null results that
\* are compatible with the slot, in the order of the entries.
uniqueRecentTemplates ==
    SelectSeq(recent.results,
              LAMBDA t : t # NULL /\ recent.slotType \in compatible_slots[t])

setRecentTemplates ==
    /\ recent # <<>>
    /\ ~recent.loaded
    /\ \A i \in DOMAIN recent.entries : recent.pos[i] = "returned"
    /\ recent' = [recent EXCEPT !.list = uniqueRecentTemplates,
                                !.loaded = TRUE]
    /\ UNCHANGED <<envVars, wizardVars, optionFormVars, catalogVars, loadVars, tagVars, storeVars, viewVars, modalVars, probeVars, evalVars>>

RecentNext ==
    \/ loadData
    \/ getOptionByIdSettles
    \/ getTemplateByIdSettles
    \/ setRecentTemplates

RecentSpec == StoreInit /\ [][RecentNext]_vars

\* --------------------------------------------------------- MealWizardModal

\* {step === 1 && isOpen && <MealSelectionModal/>}.
step1Shown == wizard.step = 1 /\ wizard.isOpen

\* {step === 2 && selectedTemplate && isOpen && <OptionSelectionModal/>}.
step2Shown ==
    wizard.step = 2 /\ wizard.selectedTemplate # NULL /\ wizard.isOpen

\* The wizard as it would be without the effect on [isOpen].
keepWhenClosed(w) == w

\* useEffect(() => { if (!isOpen) { setStep(1); setSelectedTemplate(null) } },
\* [isOpen]), run after the render that follows a change of isOpen and before
\* anything else is rendered.
resetWhenClosed(w) ==
    IF ~w.isOpen THEN [w EXCEPT !.step = 1, !.selectedTemplate = NULL] ELSE w

\* The parent opens the wizard for a slot of a date.
wizardOpened ==
    /\ ~wizard.isOpen
    /\ \E slot \in Slots, d \in Days :
          wizard' = resetWhenClosed([wizard EXCEPT !.isOpen = TRUE,
                                                   !.slotType = slot,
                                                   !.date = d])
    /\ UNCHANGED <<envVars, recentVars, optionFormVars, catalogVars, loadVars, tagVars, storeVars, viewVars, modalVars, probeVars, evalVars>>

\* A click on a card of step 1; the cards are the templates compatible with
\* the slot.
handleTemplateSelect(template) ==
    /\ step1Shown
    /\ wizard.slotType \in compatible_slots[template]
    /\ wizard' = [wizard EXCEPT !.selectedTemplate = template, !.step = 2]
    /\ UNCHANGED <<envVars, recentVars, optionFormVars, catalogVars, loadVars, tagVars, storeVars, viewVars, modalVars, probeVars, evalVars>>

\* 'Back' of step 2.
handleBack ==
    /\ step2Shown
    /\ wizard' = [wizard EXCEPT !.step = 1, !.selectedTemplate = NULL]
    /\ UNCHANGED <<envVars, recentVars, optionFormVars, catalogVars, loadVars, tagVars, storeVars, viewVars, modalVars, probeVars, evalVars>>

\* onClose of either step: the parent sets isOpen to false, and the effect
\* on [isOpen] follows the render.
handleClose ==
    /\ step1Shown \/ step2Shown
    /\ wizard' = resetWhenClosed([wizard EXCEPT !.isOpen = FALSE])
    /\ UNCHANGED <<envVars, recentVars, optionFormVars, catalogVars, loadVars, tagVars, storeVars, viewVars, modalVars, probeVars, evalVars>>

\* Save of step 2 on an option of the template: createEntry, then
\* handleSuccess (onSuccess) and handleClose (onClose).  No template of this
\* specification has a weekly limit, so no option button is disabled.
handleSuccess ==
    /\ step2Shown
    /\ \E option \in get_options_by_template(wizard.selectedTemplate) :
          create_entry([meal_option_id |-> option, date |-> wizard.date,
                        slot_type |-> wizard.slotType,
                        completed |-> isPastDate(wizard.date)])
    /\ wizard' = resetWhenClosed([wizard EXCEPT !.isOpen = FALSE])
    /\ UNCHANGED <<envVars, recentVars, optionFormVars, catalogVars, loadVars, tagVars, weekly_limit, viewVars, modalVars, probeVars, evalVars>>

WizardNext ==
    \/ wizardOpened
    \/ \E template \in Templates : handleTemplateSelect(template)
    \/ handleBack
    \/ handleClose
    \/ handleSuccess

WizardSpec == StoreInit /\ [][WizardNext]_vars

\* weekly_limit INTEGER CHECK(weekly_limit IS NULL OR weekly_limit > 0).
WeeklyLimits == {NULL} \cup (1..MaxLimit)

Init ==
    /\ today = LastDay
    /\ lookupMayFail \in BOOLEAN
    /\ weekly_limit \in {l \in [Templates -> WeeklyLimits] :
                            l[2] = NULL /\ l[3] = NULL}
    /\ meal_entries = EmptyBag
    /\ selectedDate = today
    /\ entries = [s \in Slots |-> NULL]
    /\ selectedSlot = ""
    /\ selectedTemplate = NULL
    /\ templateModalOpen = FALSE
    /\ optionModalOpen = FALSE
    /\ NoModalState
    /\ NoTagForm
    /\ NoLoad
    /\ NoOptionForm
    /\ NoWizard
    /\ NoRecent
    /\ WholeCatalog
    /\ NoProbe

Next ==
    \/ goToPreviousDay
    \/ goToNextDay
    \/ goToToday
    \/ onAddMeal
    \/ closeTemplateModal
    \/ \E template \in Templates : handleSelectTemplate(template)
    \/ \E option \in Options : setSelectedOption(option)
    \/ handleSave
    \/ closeOptionModal

Spec == Init /\ [][Next]_vars

\* The slots, and with them "Add Meal", are rendered when !loading && !error.
onAddMealShown ==
    /\ ~loading
    /\ onAddMeal

\* The daily view with loads settling late; the wizard as in Spec (the
\* reload that follows a save settles at once).
ViewNext ==
    \/ previousDayClicked
    \/ nextDayClicked
    \/ todayClicked
    \/ loadEntriesSettles
    \/ onAddMealShown
    \/ \E template \in Templates : handleSelectTemplate(template)
    \/ \E option \in Options : setSelectedOption(option)
    \/ handleSave

ViewSpec == StoreInit /\ [][ViewNext]_vars

\* ------------------------------------------- week functions on date pairs

ProbeDays == 1..LastProbeDay

WeekInit ==
    /\ probe \in {<<d1, d2>> \in ProbeDays \X ProbeDays :
                     d1 <= d2 /\ d2 - d1 <= ProbeSpan}
    /\ weeks = <<>>
    /\ clock = <<>>
    /\ saved = <<>>
    /\ call = <<>>
    /\ outcome = <<>>
    /\ verdict = <<>>
    /\ today = LastDay
    /\ lookupMayFail = FALSE
    /\ weekly_limit = [t \in Templates |-> NULL]
    /\ meal_entries = EmptyBag
    /\ selectedDate = today
    /\ entries = [s \in Slots |-> NULL]
    /\ selectedSlot = ""
    /\ selectedTemplate = NULL
    /\ templateModalOpen = FALSE
    /\ optionModalOpen = FALSE
    /\ NoModalState
    /\ NoTagForm
    /\ NoLoad
    /\ NoOptionForm
    /\ NoWizard
    /\ NoRecent
    /\ WholeCatalog

WeeksOf(d) ==
    [date |-> d, js |-> getCurrentWeek(d),
     meal |-> MealUsageWeek(d), tag |-> TagUsageWeek(d)]

ComputeWeeks ==
    /\ weeks = <<>>
    /\ weeks' = <<WeeksOf(probe[1]), WeeksOf(probe[2])>>
    /\ UNCHANGED <<probe, clock, saved, call, outcome, envVars, wizardVars, recentVars, optionFormVars, catalogVars, loadVars, tagVars, storeVars, viewVars,
                   modalVars, evalVars>>

WeekNext == ComputeWeeks

WeekSpec == WeekInit /\ [][WeekNext]_vars

\* ------------------------------------- handleSave across zones and hours

\* Offsets from UTC in hours: New York (winter), UTC, Central Europe (summer).
TimeZones == {-5, 0, 2}

\* `now` is any hour of the local day LastDay; selectedDate is the instant
\* new Date() moved by goToPreviousDay / goToNextDay to the day before, the
\* same day or the day after (the time of day is kept).
ClockInit ==
    /\ clock \in {[tz |-> tz, now |-> LastDay * 24 + h - tz,
                    selected |-> LastDay * 24 + h - tz + k * 24] :
                      tz \in TimeZones, h \in 0..23, k \in {-1, 0, 1}}
    /\ saved = <<>>
    /\ call = <<>>
    /\ outcome = <<>>
    /\ probe = <<>>
    /\ weeks = <<>>
    /\ verdict = <<>>
    /\ today = LastDay
    /\ lookupMayFail = FALSE
    /\ weekly_limit = [t \in Templates |-> NULL]
    /\ meal_entries = EmptyBag
    /\ selectedDate = today
    /\ entries = [s \in Slots |-> NULL]
    /\ selectedSlot = ""
    /\ selectedTemplate = NULL
    /\ templateModalOpen = FALSE
    /\ optionModalOpen = FALSE
    /\ NoModalState
    /\ NoTagForm
    /\ NoLoad
    /\ NoOptionForm
    /\ NoWizard
    /\ NoRecent
    /\ WholeCatalog

\* DailyView.formatDate: toLocaleDateString gives the weekday, month, day and
\* year of the instant in the local zone, kept here as the day number.
formatDate(instant, tz) == localDay(instant, tz)

\* The date prop DailyView passes (selectedDate.toISOString().split("T")[0])
\* and the completed flag handleSave computes from it.
SaveUnderClock ==
    /\ saved = <<>>
    /\ LET date == toISODate(clock.selected)
       IN  saved' = [date |-> date,
                     completed |-> isPastDateAt(date, clock.now, clock.tz)]
    /\ UNCHANGED <<probe, weeks, clock, call, outcome, envVars, wizardVars, recentVars, optionFormVars, catalogVars, loadVars, tagVars, storeVars,
                   viewVars, modalVars, evalVars>>

ClockNext == SaveUnderClock

ClockSpec == ClockInit /\ [][ClockNext]_vars

\* ------------------------------------------------------------ API wrappers

\* JavaScript values a backend call can resolve to: `type` is what typeof
\* gives except that arrays are kept apart, `val` tells values of one type
\* apart, hasMessage is `"message" in value`, message the value of that field.
JsValue(type, val, hasMessage, message) ==
    [type |-> type, val |-> val, hasMessage |-> hasMessage, message |-> message]

Undefined == JsValue("undefined", "undefined", FALSE, "")

JsValues ==
    {Undefined, JsValue("null", "null", FALSE, "")}
    \cup {JsValue("boolean", v, FALSE, "") : v \in {"true", "false"}}
    \cup {JsValue("number", v, FALSE, "") : v \in {"0", "1"}}
    \cup {JsValue("string", v, FALSE, "") : v \in {"", "message"}}
    \cup {JsValue("array", v, FALSE, "") : v \in {"[]", "[{id}]"}}
    \cup {JsValue("object", v, FALSE, "") : v \in {"{}", "{id}"}}
    \cup {JsValue("object", v, TRUE, m) :
              v \in {"{message}", "{message,code}"},
              m \in {"", "Tag not found", "CHECK constraint failed"}}

\* The value used as a condition.
Truthy(value) ==
    CASE value.type \in {"undefined", "null"} -> FALSE
      [] value.type = "boolean" -> value.val = "true"
      [] value.type = "number" -> value.val # "0"
      [] value.type = "string" -> value.val # ""
      [] OTHER -> TRUE

\* typeof value === "object".
TypeofObject(value) == value.type \in {"null", "array", "object"}

\* The guard as it would be if it tested the message itself.
isApiErrorByMessage(result) ==
    Truthy(result) /\ TypeofObject(result) /\ result.hasMessage /\ result.message # ""

\* isApiError(result), used as a condition.
isApiError(result) ==
    Truthy(result) /\ TypeofObject(result) /\ result.hasMessage

\* Wrappers declared Promise<void>: they end without a return statement.
VoidWrappers == {"deleteOption", "addTagsToOption", "removeTagsFromOption",
                 "setOptionTags", "deleteEntry"}

\* The wrappers of the model: some that return the result and the void ones.
Wrappers == {"getTagById", "getAllTags", "deleteTag", "createEntry"}
                \cup VoidWrappers

\* The body every wrapper shares after `const result = await invoke(...)`.
ApiWrapper(name, result) ==
    IF isApiError(result)
    THEN [settled |-> "rejected", error |-> result.message, value |-> Undefined]
    ELSE [settled |-> "resolved", error |-> "",
          value |-> IF name \in VoidWrappers THEN Undefined ELSE result]

ApiInit ==
    /\ call \in [name : Wrappers, result : JsValues]
    /\ outcome = <<>>
    /\ clock = <<>>
    /\ saved = <<>>
    /\ probe = <<>>
    /\ weeks = <<>>
    /\ verdict = <<>>
    /\ today = LastDay
    /\ lookupMayFail = FALSE
    /\ weekly_limit = [t \in Templates |-> NULL]
    /\ meal_entries = EmptyBag
    /\ selectedDate = today
    /\ entries = [s \in Slots |-> NULL]
    /\ selectedSlot = ""
    /\ selectedTemplate = NULL
    /\ templateModalOpen = FALSE
    /\ optionModalOpen = FALSE
    /\ NoModalState
    /\ NoTagForm
    /\ NoLoad
    /\ NoOptionForm
    /\ NoWizard
    /\ NoRecent
    /\ WholeCatalog

CallWrapper ==
    /\ outcome = <<>>
    /\ outcome' = ApiWrapper(call.name, call.result)
    /\ UNCHANGED <<probe, weeks, clock, saved, call, envVars, wizardVars, recentVars, optionFormVars, catalogVars, loadVars, tagVars, storeVars,
                   viewVars, modalVars, evalVars>>

ApiNext == CallWrapper

ApiSpec == ApiInit /\ [][ApiNext]_vars

\* ------------------------------------------------------------- properties

\* The Monday on or before d: the Monday-to-Sunday span d lies in.
MondayOf(d) == d - ((getDay(d) + 6) % 7)

\* The number of completed entries on the options of a template dated in the
\* Monday-to-Sunday week that starts on `monday`.
CompletedInWeek(template, monday) ==
    CountRows(meal_entries, {e \in BagToSet(meal_entries) : /\ e.completed
                                                            /\ template_id[e.meal_option_id] = template
                                                            /\ MondayOf(e.date) = monday})

\* C1: through the wizard, the completed entries of a template with
\* weekly_limit L dated in one Monday-to-Sunday week never number more than L
\* (stated for the runs in which no usage lookup fails; a failed lookup reads
\* as usage 0 and lets the limit be passed as well).
C1_WeeklyLimitNeverExceeded ==
    ~lookupMayFail =>
        \A t \in Templates : \A d \in Days :
            weekly_limit[t] # NULL =>
                CompletedInWeek(t, MondayOf(d)) <= weekly_limit[t]

\* `weeklyUsage.get(opt.id) || 0` on a usage map.
LoadedCount(weeklyUsage, o) ==
    IF o \in DOMAIN weeklyUsage THEN weeklyUsage[o] ELSE 0

\* The loaded per-option counts summed over the store's options of a template.
LoadedTemplateUsage(weeklyUsage, t) ==
    LET opts == {o \in Options : template_id[o] = t}
    IN  SumUsage([o \in opts |-> LoadedCount(weeklyUsage, o)], opts)

C3_UsageIsForWeekOfEntryDate ==
    (optionModalOpen /\ ~osUsageFailed) =>
        \A o \in osOptions :
            osWeeklyUsage[o] =
                CountRows(meal_entries,
                          {e \in BagToSet(meal_entries) : /\ e.completed
                                                          /\ e.meal_option_id = o
                                                          /\ MondayOf(e.date) = MondayOf(selectedDate)})

\* C4: getCurrentWeek gives two dates the same week string iff they lie in
\* the same Monday-to-Sunday span.
C4_FrontendWeekIsMondayWeek ==
    weeks # <<>> =>
        ((weeks[1].js = weeks[2].js) <=> (MondayOf(probe[1]) = MondayOf(probe[2])))

\* C5: weekly_meal_usage gives the dates of one Monday-to-Sunday span the
\* same week value, and the next Monday a different one.
C5_MealUsageWeekIsMondayWeek ==
    weeks # <<>> =>
        /\ (MondayOf(probe[1]) = MondayOf(probe[2])) => (weeks[1].meal = weeks[2].meal)
        /\ (probe[2] = MondayOf(probe[1]) + 7) => (weeks[1].meal # weeks[2].meal)

\* C6: for every date the week string of getCurrentWeek equals the week
\* value weekly_meal_usage gives an entry of that date.
C6_FrontendWeekEqualsViewWeek ==
    weeks # <<>> => \A i \in 1..2 : weeks[i].js = weeks[i].meal

\* C7: weekly_meal_usage and weekly_tag_usage give every entry date the same
\* week value.
C7_BothViewsSameWeek ==
    weeks # <<>> => \A i \in 1..2 : weeks[i].meal = weeks[i].tag

\* Week values weekly_meal_usage can hold for the dates of the model, and
\* one it cannot.
MealWeeks == {MealUsageWeek(d) : d \in Days} \cup {WeekString(2025, 0)}

\* C8: the usage reported for (option, week) is the number of stored entries
\* of the option that are completed and whose date the view puts in the
\* week; a missing row reads as 0.
C8_UsageIsLiveCountOfCompleted ==
    \A o \in Options : \A w \in MealWeeks :
        UsageCount(o, w) =
            CountRows(meal_entries, {e \in BagToSet(meal_entries) : /\ e.meal_option_id = o
                                                                    /\ e.completed = TRUE
                                                                    /\ MealUsageWeek(e.date) = w})

\* C8 witness: an option has a completed and a not completed entry in one
\* week and its usage is 1.
C8_Witness ==
    \E e \in BagToSet(meal_entries) : \E f \in BagToSet(meal_entries) :
        /\ e.meal_option_id = f.meal_option_id
        /\ MealUsageWeek(e.date) = MealUsageWeek(f.date)
        /\ e.completed /\ ~f.completed
        /\ UsageCount(e.meal_option_id, MealUsageWeek(e.date)) = 1

\* C9: the template usage of either modal is the sum of the loaded
\* per-option counts over exactly the options whose template_id is the
\* template; when no lookup failed these are the store's counts of the week
\* asked for.
C9_TemplateUsageIsSumOverItsOptions ==
    /\ templateModalOpen =>
          \A t \in Templates :
              msGetTemplateUsage(t) = LoadedTemplateUsage(msWeeklyUsage, t)
    /\ optionModalOpen =>
          getTemplateUsage = LoadedTemplateUsage(osWeeklyUsage, selectedTemplate)
    /\ (optionModalOpen /\ ~osUsageFailed) =>
          LET opts == {o \in Options : template_id[o] = selectedTemplate}
          IN  getTemplateUsage =
                  SumUsage([o \in opts |-> UsageCount(o, osWeek)], opts)

\* C9 witness: options of two templates have usage, and the template without
\* options is shown with usage 0.
C9_Witness ==
    /\ templateModalOpen
    /\ msGetTemplateUsage(1) = 1
    /\ msGetTemplateUsage(2) = 1
    /\ msGetTemplateUsage(3) = 0

\* Tags whose chain of parent links reaches `tag`, and `tag` itself.
RECURSIVE DescendantsOrSelf(_)
DescendantsOrSelf(tag) ==
    {tag} \cup UNION {DescendantsOrSelf(c) : c \in {x \in Tags : parent_tag_id[x] = tag}}

TagWeeks == {TagUsageWeek(d) : d \in Days}

\* C10: the usage of a tag in a week is the number of completed entries of
\* the week whose option carries the tag or a descendant of it.
C10_TagUsageCountsDescendants ==
    \A t \in Tags : \A w \in TagWeeks :
        TagUsageCount(t, w) =
            CountRows(meal_entries,
                      {e \in BagToSet(meal_entries) : /\ e.completed
                                                      /\ TagUsageWeek(e.date) = w
                                                      /\ \E c \in DescendantsOrSelf(t) :
                                                            <<e.meal_option_id, c>> \in meal_option_tags})

\* A tag the option carries has weekly_suggestion set and a usage count, in
\* the week the tag view gives the date, at or above it.
TagOverSuggestion(o, date) ==
    \E t \in Tags :
        /\ <<o, t>> \in meal_option_tags
        /\ weekly_suggestion[t] # NULL
        /\ TagUsageCount(t, TagUsageWeek(date)) >= weekly_suggestion[t]

\* C11: a tag at or above its weekly_suggestion never blocks: a template card
\* and an option whose template has not reached its weekly_limit can be
\* selected, and Save can be pressed once an option is selected, whatever the
\* tag usage is.
C11_SuggestionNeverBlocks ==
    /\ templateModalOpen =>
          \A t \in Templates :
              ~LimitReached(weekly_limit[t], LoadedTemplateUsage(msWeeklyUsage, t))
                  => ENABLED clickTemplateCard(t)
    /\ optionModalOpen =>
          \A o \in osOptions :
              ~LimitReached(weekly_limit[selectedTemplate],
                            LoadedTemplateUsage(osWeeklyUsage, selectedTemplate))
                  => ENABLED setSelectedOption(o)
    /\ (optionModalOpen /\ selectedOption # NULL
            /\ BagCardinality(meal_entries) < MaxEntries)
          => ENABLED handleSave

\* C11 witness: the option modal is open on an option whose tag is already at
\* its weekly_suggestion in the store, the option is selected and Save can be
\* pressed.
C11_Witness ==
    /\ optionModalOpen
    /\ selectedOption = 1
    /\ TagUsageCount(2, TagUsageWeek(selectedDate)) >= 1
    /\ TagOverSuggestion(1, selectedDate)
    /\ ENABLED handleSave

\* The tags a verdict on `option` has to warn for: a tag the option carries,
\* or an ancestor of one, with weekly_suggestion set.
SuggestedTagsOf(option) ==
    {t \in Tags : /\ weekly_suggestion[t] # NULL
                  /\ \E c \in DescendantsOrSelf(t) : <<option, c>> \in meal_option_tags}

\* C12: the verdict on a candidate entry warns for exactly the tags on the
\* option, and their ancestors, whose weekly_suggestion is set and whose
\* existing count in the entry's week is >= the suggestion (a suggestion of 0
\* warns at count 0), and the warnings do not block.
C12_WarningForEveryTagAtSuggestion ==
    verdict # <<>> =>
        LET o == verdict.entry.meal_option_id
            monday == MondayOf(verdict.entry.date)
            existing(t) ==
                CountRows(meal_entries,
                          {e \in BagToSet(meal_entries) :
                              /\ e.completed
                              /\ MondayOf(e.date) = monday
                              /\ \E c \in DescendantsOrSelf(t) :
                                    <<e.meal_option_id, c>> \in meal_option_tags})
        IN  /\ \A t \in SuggestedTagsOf(o) :
                  (t \in verdict.warnings) <=> (existing(t) >= weekly_suggestion[t])
            /\ verdict.warnings \subseteq SuggestedTagsOf(o)
            /\ \A t \in Tags :
                  (weekly_suggestion[t] = 0 /\ t \in SuggestedTagsOf(o))
                      => t \in verdict.warnings
            /\ ~verdict.blocked

\* C12 witness: a verdict on an option of the child tag, with no completed
\* entry in the store, warns for the parent tag (suggestion 0, count 0) and
\* not for the child tag (suggestion 1, count 0).
C12_Witness ==
    /\ verdict # <<>>
    /\ verdict.entry.meal_option_id = 1
    /\ CompletedEntries = {}
    /\ verdict.warnings = {1}

\* C13: the entry is created completed exactly when its date is earlier
\* than today's calendar date, in every time zone and at every hour.
C13_CompletedIffPastDate ==
    saved # <<>> =>
        (saved.completed <=> (saved.date < localDay(clock.now, clock.tz)))

\* C14: a step that changes a template's weekly_limit leaves every stored
\* entry (its option, date, slot and completed flag) as it was.
C14_TemplateUpdateKeepsEntries ==
    [][weekly_limit' # weekly_limit => meal_entries' = meal_entries]_vars

\* C14 witness: a template with completed entries on its options has been
\* given a weekly_limit below their number.
C14_Witness ==
    /\ weekly_limit[1] = 1
    /\ CompletedInWeek(1, MondayOf(LastDay)) = 2

\* The backend result is an error object: an object with a `message` field.
IsErrorObject(value) == value.type = "object" /\ value.hasMessage

\* C15: every wrapper rejects with the backend's message when the call
\* resolves to an error object and otherwise resolves to the backend's result
\* unchanged.
C15_WrapperRejectsOrReturnsResult ==
    outcome # <<>> =>
        IF IsErrorObject(call.result)
        THEN outcome.settled = "rejected" /\ outcome.error = call.result.message
        ELSE outcome.settled = "resolved" /\ outcome.value = call.result

\* C15 as amended: as above for the wrappers that return a value; a void
\* wrapper rejects in the same way and otherwise resolves to undefined.
C15_WrapperRejectsOrReturnsResultUnlessVoid ==
    outcome # <<>> =>
        IF IsErrorObject(call.result)
        THEN outcome.settled = "rejected" /\ outcome.error = call.result.message
        ELSE /\ outcome.settled = "resolved"
             /\ outcome.value = IF call.name \in VoidWrappers THEN Undefined
                                ELSE call.result

\* C15 witness: a wrapper has rejected on an error object with an empty
\* message.
C15_Witness ==
    /\ outcome # <<>>
    /\ call.name = "getTagById"
    /\ call.result.hasMessage /\ call.result.message = ""
    /\ outcome.settled = "rejected"

\* C16: when a usage lookup of the option modal has failed, the limit check
\* does not go on as if the limit were not reached: with the template's
\* weekly_limit set and the store's usage of the week asked for at or above
\* it, no option can be selected.
C16_FailedLookupDoesNotPassLimit ==
    (/\ optionModalOpen
     /\ osUsageFailed
     /\ weekly_limit[selectedTemplate] # NULL
     /\ LET opts == {o \in Options : template_id[o] = selectedTemplate}
        IN  SumUsage([o \in opts |-> UsageCount(o, osWeek)], opts)
                >= weekly_limit[selectedTemplate])
        => \A o \in osOptions : ~ENABLED setSelectedOption(o)

\* The parent links of `table` lead from tag t to a root in at most `steps`
\* steps.
RECURSIVE ReachesRoot(_, _, _)
ReachesRoot(table, t, steps) ==
    \/ table[t].parent_tag_id = NULL
    \/ /\ steps > 0
       /\ table[t].parent_tag_id \in DOMAIN table
       /\ ReachesRoot(table, table[t].parent_tag_id, steps - 1)

\* C17: the parent links of the tags table form a forest: no tag is its own
\* parent, a parent is a tag of the table, and from every tag the links
\* reach a root without coming back to a tag (in fewer steps than there are
\* tags).
C17_TagsFormForest ==
    \A t \in DOMAIN tags :
        /\ tags[t].parent_tag_id # t
        /\ ReachesRoot(tags, t, Cardinality(DOMAIN tags) - 1)

\* C17 witness: an edit has put a tag that has a child under another tag.
C17_Witness ==
    \E t \in DOMAIN tags :
        /\ tags[t].parent_tag_id # NULL
        /\ tags[tags[t].parent_tag_id].parent_tag_id # NULL

\* C18: while a tag is open in the edit form, a step leaves every other tag
\* as it is and leaves each column of the tag at its stored value as long as
\* the form's field holds what the form started with, the user not having
\* changed it (a suggestion of 0 stays 0).
C18_EditKeepsUntouchedFields ==
    [][(tagForm # <<>> /\ tagForm.tag # NULL) =>
          /\ \A t \in DOMAIN tags : t # tagForm.tag => tags'[t] = tags[t]
          /\ tagForm.weeklySuggestion = TagFormState(tagForm.tag).weeklySuggestion =>
                tags'[tagForm.tag].weekly_suggestion
                    = tags[tagForm.tag].weekly_suggestion
          /\ tagForm.parentTagId = TagFormState(tagForm.tag).parentTagId =>
                tags'[tagForm.tag].parent_tag_id
                    = tags[tagForm.tag].parent_tag_id]_vars

\* C19: every weekly_limit is null or at least 1 and every weekly_suggestion
\* is null or at least 0; submitting the template form with a number below 1
\* cannot change the templates, and a tag form holding a number below 0
\* cannot change the tags.
C19_LimitsAndSuggestionsInRange ==
    /\ \A t \in Templates : weekly_limit[t] = NULL \/ weekly_limit[t] >= 1
    /\ \A t \in DOMAIN tags :
          tags[t].weekly_suggestion = NULL \/ tags[t].weekly_suggestion >= 0
    /\ \A id \in Templates, v \in NumberInputs :
          (v # NULL /\ v < 1) =>
              ~ENABLED (update_template(id, v) /\ weekly_limit' # weekly_limit)
    /\ (tagForm # <<>> /\ tagForm.weeklySuggestion # NULL
                      /\ tagForm.weeklySuggestion < 0) =>
              ~ENABLED (handleSubmitTag /\ tags' # tags)

\* C19 witness: a template form has set a limit of 1, the tag form has
\* created a tag with suggestion 0, and a tag form holding -2 is open.
C19_Witness ==
    /\ weekly_limit[2] = 1
    /\ 3 \in DOMAIN tags
    /\ tags[3].weekly_suggestion = 0
    /\ tagForm # <<>>
    /\ tagForm.weeklySuggestion = -2

\* C20: flows that follow one another see each other's entries: when the
\* option modal has loaded the usage (no lookup failing) of a template with
\* a weekly_limit for a date of today's Monday-to-Sunday week, the count it
\* holds for the template is the
\* number of completed entries the earlier flows have stored for the template
\* in that week.
C20_SequentialFlowSeesEarlierEntries ==
    (/\ optionModalOpen
     /\ ~osUsageFailed
     /\ weekly_limit[selectedTemplate] # NULL
     /\ MondayOf(selectedDate) = MondayOf(today))
        => LoadedTemplateUsage(osWeeklyUsage, selectedTemplate)
              = CompletedInWeek(selectedTemplate, MondayOf(selectedDate))

\* C21: a step of the wizard that stores a new entry is taken with the
\* verdict of validateEntry on that entry (its option and date) at hand.
C21_SaveFollowsEvaluation ==
    [][\A e \in BagToSet(meal_entries') :
          CopiesIn(e, meal_entries') > CopiesIn(e, meal_entries) =>
              /\ verdict # <<>>
              /\ verdict.entry = [meal_option_id |-> e.meal_option_id,
                                  date |-> e.date]]_vars

\* C22: no date and slot holds more than one entry.
C22_OneEntryPerDateAndSlot ==
    \A d \in Days, s \in Slots :
        CountRows(meal_entries,
                  {e \in BagToSet(meal_entries) :
                      e.date = d /\ e.slot_type = s}) <= 1

\* C26: with no loadEntries call under way, the entries shown are those the
\* store holds for the selected date.
C26_ShownEntriesAreOfSelectedDate ==
    loads = {} => entries = loadEntries(meal_entries, selectedDate)

\* C23: an option referenced by an entry is never deleted, directly or with
\* its template, and the template of such an option and the option's tag
\* links stay; a template that is deleted takes all its options with it, a
\* deleted option takes its tag links with it, and a step that deletes a
\* template or an option leaves the entries as they are.
C23_DeleteRestrictedByEntries ==
    [][/\ \A o \in stored_options :
             HasEntries(o) =>
                 /\ o \in stored_options'
                 /\ template_id[o] \in stored_templates'
                 /\ \A row \in stored_option_tags :
                        row[1] = o => row \in stored_option_tags'
       /\ \A t \in stored_templates \ stored_templates' :
             \A o \in stored_options : template_id[o] = t => o \notin stored_options'
       /\ \A o \in stored_options \ stored_options' :
             \A row \in stored_option_tags' : row[1] # o
       /\ catalogVars' # catalogVars => meal_entries' = meal_entries]_vars

\* C23 witness: template 1 has been deleted with its options and their tag
\* links while the store holds entries.
C23_Witness ==
    /\ 1 \notin stored_templates
    /\ \A o \in Options : template_id[o] = 1 => o \notin stored_options
    /\ stored_option_tags = {}
    /\ meal_entries # EmptyBag

\* C24: a step that deletes a tag deletes every tag whose parent it was.
C24_DeleteTagDeletesChildren ==
    [][\A t \in DOMAIN tags \ DOMAIN tags' :
          \A child \in DOMAIN tags :
              tags[child].parent_tag_id = t => child \notin DOMAIN tags']_vars

\* C27: the parent of every tag that has one is a root tag.
C27_ParentsAreRoots ==
    \A t \in DOMAIN tags :
        tags[t].parent_tag_id # NULL =>
            /\ tags[t].parent_tag_id \in DOMAIN tags
            /\ tags[tags[t].parent_tag_id].parent_tag_id = NULL

\* C28: while an option is open in the option form, the tags to add and the
\* tags to remove have no tag in common, and no save can end with the
\* option's stored tags other than the selected ones.
C28_SaveStoresSelectedTags ==
    optionForm # <<>> =>
        /\ tagsToAdd(optionForm.selectedTagIds, optionForm.existingTags)
             \cap tagsToRemove(optionForm.selectedTagIds, optionForm.existingTags) = {}
        /\ optionForm.existingTags = StoredTagsOf(optionForm.option)
        /\ ~ENABLED (/\ handleSubmitOption
                     /\ {row[2] : row \in {r \in stored_option_tags' :
                                              r[1] = optionForm.option}}
                            # optionForm.selectedTagIds)

\* C28 witness: the form of option 1, stored with tag 2 alone, is open with
\* tag 1 selected and tag 2 not, so that a save adds one tag and removes one.
C28_Witness ==
    /\ optionForm # <<>>
    /\ optionForm.option = 1
    /\ optionForm.existingTags = {2}
    /\ optionForm.selectedTagIds = {1}
    /\ ENABLED handleSubmitOption

\* C25: the wizard never shows both steps, is at step 2 only with a template
\* selected, and is at step 1 with no template whenever it is closed, so that
\* it reopens there; a step that opens it ends at step 1 with no template,
\* and a step from step 2 back to step 1 of the open wizard clears the
\* template.
C25_WizardIsTwoStepMachine ==
    /\ [](/\ ~(step1Shown /\ step2Shown)
          /\ wizard.step = 2 => wizard.selectedTemplate # NULL
          /\ wizard.isOpen => (step1Shown \/ step2Shown)
          /\ ~wizard.isOpen => wizard.step = 1 /\ wizard.selectedTemplate = NULL)
    /\ [][/\ (~wizard.isOpen /\ wizard'.isOpen)
                => (wizard'.step = 1 /\ wizard'.selectedTemplate = NULL)
          /\ (wizard.isOpen /\ wizard'.isOpen /\ wizard.step = 2
                /\ wizard'.step = 1)
                => wizard'.selectedTemplate = NULL]_vars

\* The wizard is open again at step 1 after a meal was saved from step 2.
C25_Witness ==
    /\ step1Shown
    /\ wizard.selectedTemplate = NULL
    /\ BagCardinality(meal_entries) > 0

\* C29: the 'Recently Used' list holds no template twice and only templates
\* compatible with the slot, and before that no two callbacks hold the same
\* template.
C29_RecentTemplatesUniqueAndCompatible ==
    recent # <<>> =>
       /\ \A i, j \in DOMAIN recent.results :
             (i # j /\ recent.results[i] # NULL)
                => recent.results[i] # recent.results[j]
       /\ \A i, j \in DOMAIN recent.entries :
             (i # j /\ recent.pos[i] = "getTemplateById"
                    /\ recent.pos[j] = "getTemplateById")
                => template_id[recent.entries[i]] # template_id[recent.entries[j]]
       /\ \A i, j \in DOMAIN recent.list :
             i # j => recent.list[i] # recent.list[j]
       /\ \A i \in DOMAIN recent.list :
             recent.slotType \in compatible_slots[recent.list[i]]

\* Three recent entries, the first two of options of one template; the lookup
\* of the second settled first, so the template is listed once, from the
\* second callback.
C29_Witness ==
    /\ recent # <<>>
    /\ recent.loaded
    /\ recent.entries = <<1, 2, 3>>
    /\ recent.slotType = "lunch"
    /\ recent.results = <<NULL, 1, 2>>
    /\ recent.list = <<1, 2>>

\* C30: the date string DailyView loads entries by and hands to the option
\* modal is the calendar date the header shows for the selected date, in
\* every time zone and at every hour.
C30_DateStringIsHeaderDate ==
    saved # <<>> => saved.date = formatDate(clock.selected, clock.tz)

====
